---- MODULE Spec2Model ----
(***************************************************************************)
(* Model of utils/poolconfig.py: class PoolConfig.                         *)
(*                                                                         *)
(* A PoolConfig instance is modelled by its attribute dictionary `obj`, a  *)
(* function from attribute names to values: `self.a = v` extends or        *)
(* overwrites the function at "a", and reading `self.a` raises             *)
(* AttributeError when "a" is not in its domain.                           *)
(*                                                                         *)
(* Python floats are modelled as fixed-point numbers with FracBits         *)
(* fractional bits (the real r is the integer floor(r * 2^FracBits)).      *)
(* Integers produced by int(f * 2**96) are modelled as [mant, exp]         *)
(* standing for mant * 2^exp, ticks as plain integers.                     *)
(***************************************************************************)
EXTENDS Integers, Sequences, FiniteSets, TLC

VARIABLES obj, lastCall, exc, ret, ctorArgs, called, completed

vars == <<obj, lastCall, exc, ret, ctorArgs, called, completed>>

\* ---------------------------------------------------------------- bounds
\* fractional bits of the fixed-point model of floats
FracBits == 6
\* constructor arguments range over the halves -1/2, 0, 1/2, ..., MaxInput/2
MaxInput == 4

\* ------------------------------------------------------ program constants
\* q96 = 2**96
Q96Exp == 96
\* floor(log(2, 1.0001)): the number of ticks of base 1.0001 in one doubling
TicksPerDoubling == 6931

RECURSIVE Pow2(_)
Pow2(n) == IF n = 0 THEN 1 ELSE 2 * Pow2(n - 1)

One == Pow2(FracBits)
\* the fixed-point image of the integer n
Real(n) == n * One

InputValues == { k * (One \div 2) : k \in (0 - 1)..MaxInput }

\* ------------------------------------------------------------ arithmetic
\* a / b on floats
TrueDiv(a, b) == (a * One) \div b

RECURSIVE ISqrtBetween(_, _, _)
\* the largest r in lo..hi with r * r <= n (lo * lo <= n < (hi + 1)^2)
ISqrtBetween(n, lo, hi) ==
    IF lo >= hi THEN lo
    ELSE LET mid == (lo + hi + 1) \div 2
         IN  IF mid * mid <= n THEN ISqrtBetween(n, mid, hi)
                               ELSE ISqrtBetween(n, lo, mid - 1)

\* math.sqrt(x) for x >= 0
math_sqrt(x) == ISqrtBetween(x * One, 0, x + One)

RECURSIVE IntLog2(_)
\* floor(log2(n)) for an integer n >= 1
IntLog2(n) == IF n < 2 THEN 0 ELSE 1 + IntLog2(n \div 2)

RECURSIVE FracLog2(_, _)
\* the first k fractional bits of log2(y / One), for One <= y < 2 * One
FracLog2(y, k) ==
    IF k = 0 THEN 0
    ELSE LET sq == (y * y) \div One
         IN  IF sq >= 2 * One THEN Pow2(k - 1) + FracLog2(sq \div 2, k - 1)
                              ELSE FracLog2(sq, k - 1)

\* log2(x) for x > 0
Log2(x) ==
    LET e == IntLog2(x) - FracBits
        y == IF e >= 0 THEN x \div Pow2(e) ELSE x * Pow2(0 - e)
    IN  e * One + FracLog2(y, FracBits)

\* math.log(x, 1.0001) for x > 0
math_log(x) == Log2(x) * TicksPerDoubling

\* math.floor(f)
math_floor(f) == f \div One

\* int(f * q96): the product is a multiple of 2^(Q96Exp - FracBits)
IntMulQ96(f) == [mant |-> f, exp |-> Q96Exp - FracBits]

\* ------------------------------------------------- attributes, exceptions
HasAttr(self, a) == a \in DOMAIN self

SetAttr(self, a, v) == [ b \in DOMAIN self \cup {a} |-> IF b = a THEN v ELSE self[b] ]

Return(self, v) == [obj |-> self, exc |-> "none", ret |-> v]
Raise(self, e) == [obj |-> self, exc |-> e, ret |-> <<>>]

\* an exception is propagating out of the statement whose outcome is r
Raised(r) == r.exc # "none"

PriceAttrs == {"initial_price", "upper_price_bound", "lower_price_bound"}
SqrtpAttrs == {"initial_price_sqrtp", "upper_price_sqrtp", "lower_price_sqrtp"}
TickAttrs == {"initial_tick", "upper_tick", "lower_tick"}
InputAttrs == {"token0_initial", "token0_upper_bound", "token0_lower_bound",
               "token1_initial"}
Methods == {"set_prices", "set_price_to_sqrtp", "set_price_ticks",
            "calculate_liqudiry"}

\* ------------------------------------------------------------ __init__
\* the constructor with the two bounds stored in each other's field
init_swapped(initial, upper_bound, lower_bound) ==
    ("token0_initial" :> initial) @@ ("token0_upper_bound" :> lower_bound)
        @@ ("token0_lower_bound" :> upper_bound) @@ ("token1_initial" :> Real(1))

__init__(initial, upper_bound, lower_bound) ==
    ("token0_initial" :> initial) @@ ("token0_upper_bound" :> upper_bound)
        @@ ("token0_lower_bound" :> lower_bound) @@ ("token1_initial" :> Real(1))

\* ----------------------------------------------------------- set_prices
\* self.<target> = math.sqrt(self.<source> / self.token1_initial)
AssignSqrtRatio(self, target, source) ==
    IF ~HasAttr(self, source) THEN Raise(self, "AttributeError")
    ELSE IF ~HasAttr(self, "token1_initial") THEN Raise(self, "AttributeError")
    ELSE IF self["token1_initial"] = 0 THEN Raise(self, "ZeroDivisionError")
    ELSE LET q == TrueDiv(self[source], self["token1_initial"])
         IN  IF q < 0 THEN Raise(self, "ValueError")
             ELSE Return(SetAttr(self, target, math_sqrt(q)), <<>>)

\* line 13 reading the attribute the constructor sets
set_prices_13_token0(self) == AssignSqrtRatio(self, "initial_price", "token0_initial")

\* line 13 reading and overwriting the attribute the constructor sets
set_prices_13_inplace(self) == AssignSqrtRatio(self, "token0_initial", "token0_initial")

set_prices_13(self) == AssignSqrtRatio(self, "initial_price", "initial")
set_prices_14(self) == AssignSqrtRatio(self, "upper_price_bound", "token0_upper_bound")
set_prices_15(self) == AssignSqrtRatio(self, "lower_price_bound", "token0_lower_bound")
set_prices_17(self) ==
    Return(self, <<self["initial_price"], self["upper_price_bound"],
                   self["lower_price_bound"]>>)

set_prices(self) ==
    LET r13 == set_prices_13(self)
        r14 == IF Raised(r13) THEN r13 ELSE set_prices_14(r13.obj)
        r15 == IF Raised(r14) THEN r14 ELSE set_prices_15(r14.obj)
    IN  IF Raised(r15) THEN r15 ELSE set_prices_17(r15.obj)

\* ---------------------------------------------------- set_price_to_sqrtp
\* the assignment with a missing source attribute read as 0
AssignSqrtQ96_default(self, target, source) ==
    LET price == IF HasAttr(self, source) THEN self[source] ELSE 0
    IN  IF price < 0 THEN Raise(self, "ValueError")
        ELSE Return(SetAttr(self, target, IntMulQ96(math_sqrt(price))), <<>>)

\* self.<target> = int(math.sqrt(self.<source>) * q96)
AssignSqrtQ96(self, target, source) ==
    IF ~HasAttr(self, source) THEN Raise(self, "AttributeError")
    ELSE IF self[source] < 0 THEN Raise(self, "ValueError")
    ELSE Return(SetAttr(self, target, IntMulQ96(math_sqrt(self[source]))), <<>>)

set_price_to_sqrtp_21(self) == AssignSqrtQ96(self, "initial_price_sqrtp", "initial_price")
set_price_to_sqrtp_22(self) == AssignSqrtQ96(self, "upper_price_sqrtp", "upper_price_bound")
set_price_to_sqrtp_23(self) == AssignSqrtQ96(self, "lower_price_sqrtp", "lower_price_bound")
set_price_to_sqrtp_25(self) ==
    Return(self, <<self["initial_price_sqrtp"], self["upper_price_sqrtp"],
                   self["lower_price_sqrtp"]>>)

set_price_to_sqrtp(self) ==
    LET r21 == set_price_to_sqrtp_21(self)
        r22 == IF Raised(r21) THEN r21 ELSE set_price_to_sqrtp_22(r21.obj)
        r23 == IF Raised(r22) THEN r22 ELSE set_price_to_sqrtp_23(r22.obj)
    IN  IF Raised(r23) THEN r23 ELSE set_price_to_sqrtp_25(r23.obj)

\* ------------------------------------------------------- set_price_ticks
\* self.<target> = math.floor(math.log(self.<source>, 1.0001))
AssignFloorLog(self, target, source) ==
    IF ~HasAttr(self, source) THEN Raise(self, "AttributeError")
    ELSE IF self[source] <= 0 THEN Raise(self, "ValueError")
    ELSE Return(SetAttr(self, target, math_floor(math_log(self[source]))), <<>>)

set_price_ticks_28(self) == AssignFloorLog(self, "initial_tick", "initial_price")
set_price_ticks_29(self) == AssignFloorLog(self, "upper_tick", "upper_price_bound")
set_price_ticks_30(self) == AssignFloorLog(self, "lower_tick", "lower_price_bound")
set_price_ticks_32(self) ==
    Return(self, <<self["initial_tick"], self["upper_tick"], self["lower_tick"]>>)

set_price_ticks(self) ==
    LET r28 == set_price_ticks_28(self)
        r29 == IF Raised(r28) THEN r28 ELSE set_price_ticks_29(r28.obj)
        r30 == IF Raised(r29) THEN r29 ELSE set_price_ticks_30(r29.obj)
    IN  IF Raised(r30) THEN r30 ELSE set_price_ticks_32(r30.obj)

\* ---------------------------------------------------- calculate_liqudiry
\* the method raising instead of passing
calculate_liqudiry_raises(self) == Raise(self, "NotImplementedError")

\* pass: the method returns None
calculate_liqudiry(self) == Return(self, <<>>)

\* ---------------------------------------------------------------- state
Init ==
    \E initial \in InputValues, upper_bound \in InputValues, lower_bound \in InputValues :
        /\ obj = __init__(initial, upper_bound, lower_bound)
        /\ ctorArgs = <<initial, upper_bound, lower_bound>>
        /\ lastCall = "__init__"
        /\ exc = "none"
        /\ ret = <<>>
        /\ called = {}
        /\ completed = {}

\* the caller's record of a method call that ended in the outcome r
Called(m, r) ==
    /\ obj' = r.obj
    /\ exc' = r.exc
    /\ ret' = r.ret
    /\ lastCall' = m
    /\ called' = called \cup {m}
    /\ completed' = IF r.exc = "none" THEN completed \cup {m} ELSE completed
    /\ UNCHANGED ctorArgs

\* PoolConfig(initial, upper_bound, lower_bound): a new object replaces the old
Construct ==
    \E initial \in InputValues, upper_bound \in InputValues, lower_bound \in InputValues :
        /\ obj' = __init__(initial, upper_bound, lower_bound)
        /\ ctorArgs' = <<initial, upper_bound, lower_bound>>
        /\ lastCall' = "__init__"
        /\ exc' = "none"
        /\ ret' = <<>>
        /\ called' = {}
        /\ completed' = {}

CallSetPrices == Called("set_prices", set_prices(obj))

CallSetPriceToSqrtp == Called("set_price_to_sqrtp", set_price_to_sqrtp(obj))

CallSetPriceTicks == Called("set_price_ticks", set_price_ticks(obj))

CallCalculateLiqudiry == Called("calculate_liqudiry", calculate_liqudiry(obj))

Next ==
    \/ Construct
    \/ CallSetPrices
    \/ CallSetPriceToSqrtp
    \/ CallSetPriceTicks
    \/ CallCalculateLiqudiry

Spec == Init /\ [][Next]_vars

\* ------------------------------------------------------------ properties
initialArg == ctorArgs[1]
upperArg == ctorArgs[2]
lowerArg == ctorArgs[3]

HasPrices == PriceAttrs \subseteq DOMAIN obj

\* C1: for positive constructor inputs with lower <= initial <= upper, a call
\* of set_prices returns normally a list [initialPrice, upperPriceBound,
\* lowerPriceBound] with lowerPriceBound <= initialPrice <= upperPriceBound.
C1_PricesOrdered ==
    (/\ lastCall = "set_prices"
     /\ lowerArg > 0
     /\ lowerArg <= initialArg
     /\ initialArg <= upperArg)
    => (/\ exc = "none"
        /\ Len(ret) = 3
        /\ ret[3] <= ret[1]
        /\ ret[1] <= ret[2])

\* C2: set_prices returns the list [sqrt(initial / token1), sqrt(upper / token1),
\* sqrt(lower / token1)] of the constructor inputs, token1 being 1, and stores
\* the same three values in initial_price, upper_price_bound, lower_price_bound.
C2_PricesAreSqrt ==
    (/\ lastCall = "set_prices"
     /\ \A i \in 1..3 : ctorArgs[i] >= 0)
    => (/\ exc = "none"
        /\ ret = << math_sqrt(TrueDiv(initialArg, Real(1))),
                    math_sqrt(TrueDiv(upperArg, Real(1))),
                    math_sqrt(TrueDiv(lowerArg, Real(1))) >>
        /\ HasPrices
        /\ ret = << obj["initial_price"], obj["upper_price_bound"],
                    obj["lower_price_bound"] >>)

C4_SignalsNotImplemented ==
    lastCall = "calculate_liqudiry" => exc = "NotImplementedError"

\* C4 as amended: every call of calculate_liqudiry, in every object state,
\* returns normally with no value (None); it signals no error and returns no
\* number.
C4_ReturnsNone ==
    lastCall = "calculate_liqudiry" => (exc = "none" /\ ret = <<>>)

C4_Witness ==
    /\ lastCall = "calculate_liqudiry"
    /\ {"set_prices", "set_price_to_sqrtp", "set_price_ticks"} \subseteq called
    /\ exc = "none"

\* C5: once set_prices has been called on non-negative inputs,
\* set_price_to_sqrtp returns [initialPriceSqrtP, upperPriceSqrtP,
\* lowerPriceSqrtP], each the non-negative integer floor(sqrt(price) * 2^96)
\* of the corresponding stored price field.
C5_SqrtpOfPrices ==
    (/\ lastCall = "set_price_to_sqrtp"
     /\ "set_prices" \in called
     /\ \A i \in 1..3 : ctorArgs[i] >= 0)
    => (/\ exc = "none"
        /\ HasPrices
        /\ ret = << IntMulQ96(math_sqrt(obj["initial_price"])),
                    IntMulQ96(math_sqrt(obj["upper_price_bound"])),
                    IntMulQ96(math_sqrt(obj["lower_price_bound"])) >>
        /\ \A i \in 1..3 : ret[i].mant >= 0)

\* C6: once set_prices has been called on positive inputs, set_price_ticks
\* returns [initialTick, upperTick, lowerTick], each an integer t with
\* 1.0001^t <= price < 1.0001^(t+1), that is t <= log_1.0001(price) < t + 1,
\* for the corresponding stored price.
C6_TicksBracketPrices ==
    (/\ lastCall = "set_price_ticks"
     /\ "set_prices" \in called
     /\ \A i \in 1..3 : ctorArgs[i] > 0)
    => (/\ exc = "none"
        /\ HasPrices
        /\ Len(ret) = 3
        /\ LET price == << obj["initial_price"], obj["upper_price_bound"],
                           obj["lower_price_bound"] >>
           IN  \A i \in 1..3 :
                   /\ Real(ret[i]) <= math_log(price[i])
                   /\ math_log(price[i]) < Real(ret[i] + 1))

\* C7: set_prices fails with a domain error (ValueError) whenever a stored
\* bound is negative, and set_price_ticks fails with a domain error whenever
\* a stored price is <= 0; neither returns a value in these cases.
C7_DomainErrors ==
    /\ (lastCall = "set_prices" /\ \E i \in 1..3 : ctorArgs[i] < 0)
         => (exc = "ValueError" /\ ret = <<>>)
    /\ (/\ lastCall = "set_price_ticks"
        /\ "set_prices" \in called
        /\ \A i \in 1..3 : ctorArgs[i] >= 0
        /\ \E i \in 1..3 : ctorArgs[i] = 0)
         => (exc = "ValueError" /\ ret = <<>>)

\* C8: the constructor succeeds on every argument triple, zero and negative
\* values included, stores the arguments unchanged in token0_initial,
\* token0_upper_bound and token0_lower_bound, sets token1_initial to 1 and
\* populates no derived field.
C8_ConstructStores ==
    lastCall = "__init__"
    => (/\ exc = "none"
        /\ DOMAIN obj = InputAttrs
        /\ obj["token0_initial"] = initialArg
        /\ obj["token0_upper_bound"] = upperArg
        /\ obj["token0_lower_bound"] = lowerArg
        /\ obj["token1_initial"] = Real(1))

C8_Witness ==
    /\ lastCall = "__init__"
    /\ initialArg < 0
    /\ upperArg = 0
    /\ lowerArg > upperArg
    /\ DOMAIN obj = InputAttrs

\* the attributes outside the set keep in the next state the value they have
Keeps(attrs) ==
    /\ DOMAIN obj' \ attrs = DOMAIN obj \ attrs
    /\ \A a \in DOMAIN obj \ attrs : obj'[a] = obj[a]

\* C9: every method call leaves token0_initial, token0_upper_bound,
\* token0_lower_bound and token1_initial at the values set at construction;
\* set_price_to_sqrtp writes only the three sqrtP fields, set_price_ticks only
\* the three tick fields, and calculate_liqudiry no field at all.
C9_Frame ==
    [][ lastCall' # "__init__"
        => (/\ InputAttrs \subseteq DOMAIN obj'
            /\ obj'["token0_initial"] = initialArg
            /\ obj'["token0_upper_bound"] = upperArg
            /\ obj'["token0_lower_bound"] = lowerArg
            /\ obj'["token1_initial"] = Real(1)
            /\ (lastCall' = "set_price_to_sqrtp" => Keeps(SqrtpAttrs))
            /\ (lastCall' = "set_price_ticks" => Keeps(TickAttrs))
            /\ (lastCall' = "calculate_liqudiry" => obj' = obj)) ]_vars

C9_Witness ==
    /\ called = Methods
    /\ lastCall = "set_price_to_sqrtp"
    /\ obj["token0_initial"] = initialArg
    /\ initialArg > Real(1)

AllOrNothing(attrs) == DOMAIN obj \cap attrs \in {{}, attrs}

\* C10: the three price fields are all populated or all unpopulated, and so
\* are the three sqrtP fields and the three tick fields; a method call that
\* ends in an error assigns no field.
C10_AllOrNothing ==
    /\ [](AllOrNothing(PriceAttrs) /\ AllOrNothing(SqrtpAttrs) /\ AllOrNothing(TickAttrs))
    /\ [][ exc' # "none" => DOMAIN obj' = DOMAIN obj ]_vars

C10_Witness ==
    /\ lastCall = "set_prices"
    /\ exc # "none"
    /\ initialArg > 0
    /\ upperArg < 0
    /\ AllOrNothing(PriceAttrs)
    /\ called = Methods

====
